---- MODULE Spec2Model ----
(***************************************************************************)
(* Susa: the dense column-major matrix container (inc/susa/matrix.h) and   *)
(* the signal-processing functions built on it (inc/susa/signal.h).        *)
(*                                                                         *)
(* A matrix value is a record [rows, cols, data]; data is the element      *)
(* buffer in storage (column-major) order, so the C++ linear index e is    *)
(* data[e + 1].  The empty matrix has rows = cols = 0 and data = << >>.    *)
(* Every library function is an operator that walks the same loops as the  *)
(* C++ code; every action is one call of a library function on arguments   *)
(* drawn from bounded sets, recording the arguments and the result.        *)
(***************************************************************************)
EXTENDS Integers, Sequences, FiniteSets, TLC

VARIABLES pc, op, arg_a, arg_b, arg_x, arg_n, heap, ret, faults

vars == <<pc, op, arg_a, arg_b, arg_x, arg_n, heap, ret, faults>>

(***************************************************************************)
(* Bounds of the model.                                                    *)
(***************************************************************************)
\* longest vector / most rows of an input
MaxLen == 3
\* most coefficients of b and of a
MaxCoef == 2
\* largest size_length (extra tail) given to filter
MaxExtra == 1
\* largest up/down-sampling rate
MaxRate == 3
\* width of size_t and of long int in the model (64 in the usual build)
SizeBits == 16
\* most columns asked of a constructor or of resize
MaxCols == 2
\* most tokens of a parsed string
MaxTok == 3
\* width of the element type T in the arithmetic operators
TBits == 1

\* sample element values of T (an integer type)
Vals == {0, 1}

(***************************************************************************)
(* matrix.h: construction, shape, element access                           *)
(***************************************************************************)
\* the default constructor: no buffer, rows = cols = 0
matrix0 == [rows |-> 0, cols |-> 0, data |-> << >>]

\* susa::memory<T>::allocate(n): a buffer of n elements whose contents are
\* whatever the heap holds (junk)
allocate(n, junk) == [i \in 1..n |-> junk]

\* SUSA_ASSERT(sizet_cols > 0 && sizet_rows > 0) of the sized constructors
ctor_assert(sizet_rows, sizet_cols) == sizet_cols > 0 /\ sizet_rows > 0

\* matrix(rows, cols): "the elements are not initialized"
matrix2(sizet_rows, sizet_cols, junk) ==
    LET r == IF sizet_rows < 2 THEN 1 ELSE sizet_rows
        c == IF sizet_cols < 2 THEN 1 ELSE sizet_cols
    IN  [rows |-> r, cols |-> c, data |-> allocate(r * c, junk)]

\* matrix(rows, cols, Tinitial): every element set to Tinitial
matrix3(sizet_rows, sizet_cols, Tinitial) ==
    LET r == IF sizet_rows < 2 THEN 1 ELSE sizet_rows
        c == IF sizet_cols < 2 THEN 1 ELSE sizet_cols
    IN  [rows |-> r, cols |-> c, data |-> [i \in 1..(r * c) |-> Tinitial]]

no_rows(m) == m.rows

no_cols(m) == m.cols

\* susa::memory<T>::size(): sizet_objects, the element count of the buffer
size(m) == Len(m.data)

is_vector(m) == (m.rows = 1 /\ m.cols > 1) \/ (m.rows > 1 /\ m.cols = 1)

is_scalar(m) == m.rows = 1 /\ m.cols = 1

\* get_lindex for storage by rows
get_lindex_by_rows(m, sizet_row, sizet_col) == sizet_col + sizet_row * m.cols

get_lindex(m, sizet_row, sizet_col) == sizet_row + sizet_col * m.rows

\* T get(elem) / operator()(elem) const: an index past the buffer fails the
\* assertion and otherwise reads past the buffer (junk)
get1(m, sizet_elem, junk) ==
    IF sizet_elem >= 0 /\ sizet_elem < size(m) THEN m.data[sizet_elem + 1] ELSE junk

\* T get(row, col) / operator()(row, col) const
get2(m, sizet_row, sizet_col, junk) ==
    IF sizet_row >= 0 /\ sizet_col >= 0 /\ sizet_row < m.rows /\ sizet_col < m.cols
    THEN m.data[get_lindex(m, sizet_row, sizet_col) + 1]
    ELSE junk

\* T& operator()(elem) = v: an index past the buffer is redirected to T_fake,
\* so the matrix is left as it was
set1(m, sizet_elem, v) ==
    IF sizet_elem >= 0 /\ sizet_elem < size(m)
    THEN [m EXCEPT !.data[sizet_elem + 1] = v]
    ELSE m

\* T& operator()(row, col) = v
set2(m, sizet_row, sizet_col, v) ==
    IF sizet_row >= 0 /\ sizet_col >= 0 /\ sizet_row < m.rows /\ sizet_col < m.cols
    THEN [m EXCEPT !.data[get_lindex(m, sizet_row, sizet_col) + 1] = v]
    ELSE m

\* TRUE of every value.  TLC evaluates an operator's argument when it is first
\* used, so a loop written as a recursive operator names its accumulator in
\* the loop test: the accumulator is then a value at every iteration and not
\* a chain of pending stores as long as the whole loop nest.
Evaluated(v) == v = v

(***************************************************************************)
(* signal.h: filter                                                        *)
(***************************************************************************)
\* the guard of both ternaries: 0 <= i - k < n
filter_guard(i, k, n) == i < n + k /\ i + 1 > k

\* mat_y(i) += x * mat_arg_b(k)
filter_acc_b(y_i, x, b_k) == y_i + x * b_k

filter_acc_a_plus(y_i, y, a_k) == y_i + y * a_k

\* mat_y(i) -= y * mat_arg_a(k)
filter_acc_a(y_i, y, a_k) == y_i - y * a_k

\* vector branches: for (k = 0; k < size_b; k++)
RECURSIVE filter_vec_b(_, _, _, _, _, _)
filter_vec_b(mat_y, mat_arg_b, mat_arg_x, i, k, junk) ==
    IF Evaluated(mat_y) /\ k < size(mat_arg_b)
    THEN LET x == IF filter_guard(i, k, size(mat_arg_x))
                  THEN get1(mat_arg_x, i - k, junk) ELSE 0
         IN  filter_vec_b(set1(mat_y, i, filter_acc_b(get1(mat_y, i, junk), x,
                                                      get1(mat_arg_b, k, junk))),
                          mat_arg_b, mat_arg_x, i, k + 1, junk)
    ELSE mat_y

\* vector branches: for (k = 1; k < size_a; k++)
RECURSIVE filter_vec_a(_, _, _, _, _)
filter_vec_a(mat_y, mat_arg_a, i, k, junk) ==
    IF Evaluated(mat_y) /\ k < size(mat_arg_a)
    THEN LET y == IF filter_guard(i, k, size(mat_y))
                  THEN get1(mat_y, i - k, junk) ELSE 0
         IN  filter_vec_a(set1(mat_y, i, filter_acc_a(get1(mat_y, i, junk), y,
                                                      get1(mat_arg_a, k, junk))),
                          mat_arg_a, i, k + 1, junk)
    ELSE mat_y

\* vector branches: for (i = 0; i < size_ret_len; i++)
RECURSIVE filter_vec_i(_, _, _, _, _, _, _)
filter_vec_i(mat_y, mat_arg_b, mat_arg_a, mat_arg_x, i, size_ret_len, junk) ==
    IF Evaluated(mat_y) /\ i < size_ret_len
    THEN filter_vec_i(
             filter_vec_a(filter_vec_b(mat_y, mat_arg_b, mat_arg_x, i, 0, junk),
                          mat_arg_a, i, 1, junk),
             mat_arg_b, mat_arg_a, mat_arg_x, i + 1, size_ret_len, junk)
    ELSE mat_y

\* matrix branch: for (k = 0; k < size_b; k++)
RECURSIVE filter_mat_b(_, _, _, _, _, _, _)
filter_mat_b(mat_y, mat_arg_b, mat_arg_x, size_col, i, k, junk) ==
    IF Evaluated(mat_y) /\ k < size(mat_arg_b)
    THEN LET x == IF filter_guard(i, k, no_rows(mat_arg_x))
                  THEN get2(mat_arg_x, i - k, size_col, junk) ELSE 0
         IN  filter_mat_b(set2(mat_y, i, size_col,
                               filter_acc_b(get2(mat_y, i, size_col, junk), x,
                                            get1(mat_arg_b, k, junk))),
                          mat_arg_b, mat_arg_x, size_col, i, k + 1, junk)
    ELSE mat_y

\* matrix branch: for (k = 1; k < size_a; k++)
RECURSIVE filter_mat_a(_, _, _, _, _, _)
filter_mat_a(mat_y, mat_arg_a, size_col, i, k, junk) ==
    IF Evaluated(mat_y) /\ k < size(mat_arg_a)
    THEN LET y == IF filter_guard(i, k, no_rows(mat_y))
                  THEN get2(mat_y, i - k, size_col, junk) ELSE 0
         IN  filter_mat_a(set2(mat_y, i, size_col,
                               filter_acc_a(get2(mat_y, i, size_col, junk), y,
                                            get1(mat_arg_a, k, junk))),
                          mat_arg_a, size_col, i, k + 1, junk)
    ELSE mat_y

\* matrix branch: for (i = 0; i < size_ret_len; i++)
RECURSIVE filter_mat_i(_, _, _, _, _, _, _, _)
filter_mat_i(mat_y, mat_arg_b, mat_arg_a, mat_arg_x, size_col, i, size_ret_len, junk) ==
    IF Evaluated(mat_y) /\ i < size_ret_len
    THEN filter_mat_i(
             filter_mat_a(filter_mat_b(mat_y, mat_arg_b, mat_arg_x, size_col, i, 0, junk),
                          mat_arg_a, size_col, i, 1, junk),
             mat_arg_b, mat_arg_a, mat_arg_x, size_col, i + 1, size_ret_len, junk)
    ELSE mat_y

\* matrix branch: for (size_col = 0; size_col < size_x_cols; size_col++)
RECURSIVE filter_mat_col(_, _, _, _, _, _, _)
filter_mat_col(mat_y, mat_arg_b, mat_arg_a, mat_arg_x, size_col, size_ret_len, junk) ==
    IF Evaluated(mat_y) /\ size_col < no_cols(mat_arg_x)
    THEN filter_mat_col(
             filter_mat_i(mat_y, mat_arg_b, mat_arg_a, mat_arg_x, size_col, 0,
                          size_ret_len, junk),
             mat_arg_b, mat_arg_a, mat_arg_x, size_col + 1, size_ret_len, junk)
    ELSE mat_y

\* filter(b, a, x, size_length): the three shape branches; any other shape
\* (1x1, empty) falls through and returns the default-constructed mat_y
filter(mat_arg_b, mat_arg_a, mat_arg_x, size_length, junk) ==
    LET size_x_rows == no_rows(mat_arg_x)
        size_x_cols == no_cols(mat_arg_x)
        size_x      == size(mat_arg_x)
    IN  IF size_x_cols > 1 /\ size_x_rows > 1
        THEN filter_mat_col(matrix3(size_x_rows + size_length, size_x_cols, 0),
                            mat_arg_b, mat_arg_a, mat_arg_x, 0,
                            size_x_rows + size_length, junk)
        ELSE IF size_x_cols = 1 /\ size_x_rows > 1
        THEN filter_vec_i(matrix3(size_x + size_length, 1, 0),
                          mat_arg_b, mat_arg_a, mat_arg_x, 0, size_x + size_length, junk)
        ELSE IF size_x_cols > 1 /\ size_x_rows = 1
        THEN filter_vec_i(matrix3(1, size_x + size_length, 0),
                          mat_arg_b, mat_arg_a, mat_arg_x, 0, size_x + size_length, junk)
        ELSE matrix0

(***************************************************************************)
(* matrix.h: scalar times matrix; linalg.h: matmul                         *)
(***************************************************************************)
\* operator*(T, matrix): a matrix of the argument's shape, every element
\* written with T_arg * element
scalar_times(T_arg, mat_argr, junk) ==
    LET mat_ret == matrix2(mat_argr.rows, mat_argr.cols, junk)
    IN  [mat_ret EXCEPT !.data =
            [i \in 1..size(mat_ret) |->
                IF i <= size(mat_argr) THEN T_arg * mat_argr.data[i] ELSE @[i]]]

\* matmul(l, r): the matrix product, element (i, j) = sum_k l(i, k) * r(k, j)
matmul(mat_argl, mat_argr) ==
    [rows |-> mat_argl.rows,
     cols |-> mat_argr.cols,
     data |-> [e \in 1..(mat_argl.rows * mat_argr.cols) |->
                 LET i == (e - 1) % mat_argl.rows
                     j == (e - 1) \div mat_argl.rows
                     K == 0..(mat_argl.cols - 1)
                     term[k \in K] ==
                         mat_argl.data[i + k * mat_argl.rows + 1]
                         * mat_argr.data[k + j * mat_argr.rows + 1]
                     acc[n \in 0..mat_argl.cols] ==
                         IF n = 0 THEN 0 ELSE acc[n - 1] + term[n - 1]
                 IN  acc[mat_argl.cols]]]

(***************************************************************************)
(* signal.h: conv                                                          *)
(***************************************************************************)
conv_tail_full(m) == size(m)

\* size_length = mat_arg.size() - 1
conv_tail(m) == size(m) - 1

\* conv(a, b): the branch taken depends on which operand is a vector first
conv(mat_arg_a, mat_arg_b, junk) ==
    IF is_vector(mat_arg_b)
    THEN filter(mat_arg_b, matrix3(1, 1, 1), mat_arg_a, conv_tail(mat_arg_b), junk)
    ELSE IF is_vector(mat_arg_a)
    THEN filter(mat_arg_a, matrix3(1, 1, 1), mat_arg_b, conv_tail(mat_arg_a), junk)
    ELSE IF mat_arg_b.cols = 1 /\ mat_arg_b.rows = 1
    THEN scalar_times(get1(mat_arg_b, 0, junk), mat_arg_a, junk)
    ELSE IF mat_arg_a.cols = 1 /\ mat_arg_a.rows = 1
    THEN scalar_times(get1(mat_arg_a, 0, junk), mat_arg_b, junk)
    ELSE matrix0

\* the two SUSA_ASSERT_MESSAGE(false, "unsupported codition.") branches
conv_faults(mat_arg_a, mat_arg_b) ==
    IF \/ is_vector(mat_arg_b)
       \/ is_vector(mat_arg_a)
       \/ (mat_arg_b.cols = 1 /\ mat_arg_b.rows = 1)
       \/ (mat_arg_a.cols = 1 /\ mat_arg_a.rows = 1)
    THEN {}
    ELSE {"assert"}

(***************************************************************************)
(* signal.h: convmtx                                                       *)
(***************************************************************************)
\* mat_ret(row, col) = v with the running index along a column (by_col) or
\* along a row
convmtx_put(mat_ret, run, fixed, by_col, v) ==
    IF by_col THEN set2(mat_ret, run, fixed, v) ELSE set2(mat_ret, fixed, run, v)

\* the two zeroing loops: for (run = from; run < to; run++) mat_ret(..) = 0
RECURSIVE convmtx_zero(_, _, _, _, _)
convmtx_zero(mat_ret, run, to, fixed, by_col) ==
    IF Evaluated(mat_ret) /\ run < to
    THEN convmtx_zero(convmtx_put(mat_ret, run, fixed, by_col, 0), run + 1, to, fixed, by_col)
    ELSE mat_ret

\* the element of mat_arg copied to position run of line fixed
convmtx_tap(run, fixed) == run - fixed

\* the copying loop: for (run = fixed; run < size_m + fixed; run++)
\*     mat_ret(..) = mat_arg(run - fixed)
RECURSIVE convmtx_band(_, _, _, _, _, _, _)
convmtx_band(mat_ret, mat_arg, run, to, fixed, by_col, junk) ==
    IF Evaluated(mat_ret) /\ run < to
    THEN convmtx_band(convmtx_put(mat_ret, run, fixed, by_col,
                                  get1(mat_arg, convmtx_tap(run, fixed), junk)),
                      mat_arg, run + 1, to, fixed, by_col, junk)
    ELSE mat_ret

\* the outer loop over the size_len columns (rows) of the result
RECURSIVE convmtx_lines(_, _, _, _, _, _)
convmtx_lines(mat_ret, mat_arg, fixed, size_len, by_col, junk) ==
    IF Evaluated(mat_ret) /\ fixed < size_len
    THEN LET size_m == size(mat_arg)
             z1 == convmtx_zero(mat_ret, 0, fixed, fixed, by_col)
             bd == convmtx_band(z1, mat_arg, fixed, size_m + fixed, fixed, by_col, junk)
             z2 == convmtx_zero(bd, size_m + fixed, size_m + size_len - 1, fixed, by_col)
         IN  convmtx_lines(z2, mat_arg, fixed + 1, size_len, by_col, junk)
    ELSE mat_ret

\* convmtx(h, size_len)
convmtx(mat_arg, size_len, junk) ==
    LET size_m == size(mat_arg)
    IN  IF mat_arg.cols = 1 /\ mat_arg.rows >= 1
        THEN convmtx_lines(matrix3(size_m + size_len - 1, size_len, 0),
                           mat_arg, 0, size_len, TRUE, junk)
        ELSE IF mat_arg.rows = 1 /\ mat_arg.cols >= 1
        THEN convmtx_lines(matrix3(size_len, size_m + size_len - 1, 0),
                           mat_arg, 0, size_len, FALSE, junk)
        ELSE matrix0

\* SUSA_ASSERT_MESSAGE(mat_arg.is_vector(), ...)
convmtx_faults(mat_arg) == IF is_vector(mat_arg) THEN {} ELSE {"assert"}

(***************************************************************************)
(* signal.h: toeplitz                                                      *)
(***************************************************************************)
\* size_t arithmetic is modulo 2^SizeBits
SizeMod == 2 ^ SizeBits

long_cast_wide(u) == u

\* (long int) of a size_t of the same width: the top half is negative
long_cast(u) == IF u >= SizeMod \div 2 THEN u - SizeMod ELSE u

\* std::abs((long int)(size_col - uint_row))
toeplitz_index(size_col, uint_row) ==
    LET d == long_cast((size_col - uint_row) % SizeMod)
    IN  IF d < 0 THEN 0 - d ELSE d

\* mat_ret(uint_row, size_col) = mat_col(index); st = [m, f] carries the
\* result under construction and the faults met so far
toeplitz_store(st, mat_col, uint_row, size_col, junk) ==
    LET e == toeplitz_index(size_col, uint_row)
    IN  [m |-> set2(st.m, uint_row, size_col, get1(mat_col, e, junk)),
         f |-> st.f
               \cup (IF e < size(mat_col) THEN {} ELSE {"read_out_of_range"})
               \cup (IF uint_row < st.m.rows /\ size_col < st.m.cols
                     THEN {} ELSE {"write_out_of_range"})]

\* for (size_col = 0; size_col < size_cols; size_col++)
RECURSIVE toeplitz_cols(_, _, _, _, _, _)
toeplitz_cols(st, mat_col, uint_row, size_col, size_cols, junk) ==
    IF Evaluated(st) /\ size_col < size_cols
    THEN toeplitz_cols(toeplitz_store(st, mat_col, uint_row, size_col, junk),
                       mat_col, uint_row, size_col + 1, size_cols, junk)
    ELSE st

\* for (uint_row = 0; uint_row < size_rows; uint_row++)
RECURSIVE toeplitz_rows(_, _, _, _, _, _)
toeplitz_rows(st, mat_col, uint_row, size_rows, size_cols, junk) ==
    IF Evaluated(st) /\ uint_row < size_rows
    THEN toeplitz_rows(toeplitz_cols(st, mat_col, uint_row, 0, size_cols, junk),
                       mat_col, uint_row + 1, size_rows, size_cols, junk)
    ELSE st

\* toeplitz(col, row): mat_ret(size_cols, size_rows) has |col| rows and |row|
\* columns; the loops run uint_row < |row| and size_col < |col|
toeplitz2(mat_col, mat_row, junk) ==
    LET size_cols == size(mat_col)
        size_rows == size(mat_row)
    IN  toeplitz_rows([m |-> matrix2(size_cols, size_rows, junk), f |-> {}],
                      mat_col, 0, size_rows, size_cols, junk)

\* toeplitz(col)
toeplitz1(mat_col, junk) ==
    LET size_len == size(mat_col)
    IN  toeplitz_rows([m |-> matrix2(size_len, size_len, junk), f |-> {}],
                      mat_col, 0, size_len, size_len, junk)

(***************************************************************************)
(* signal.h: upsample, downsample                                          *)
(***************************************************************************)
\* the row of mat_tmp that receives row uint_row of the input
upsample_row(uint_row, uint_u) == uint_row * uint_u

\* for (uint_row = 0; uint_row < mat_arg.no_rows(); uint_row++)
RECURSIVE upsample_rows(_, _, _, _, _, _)
upsample_rows(mat_tmp, mat_arg, size_col, uint_row, uint_u, junk) ==
    IF Evaluated(mat_tmp) /\ uint_row < no_rows(mat_arg)
    THEN upsample_rows(set2(mat_tmp, upsample_row(uint_row, uint_u), size_col,
                            get2(mat_arg, uint_row, size_col, junk)),
                       mat_arg, size_col, uint_row + 1, uint_u, junk)
    ELSE mat_tmp

\* for (size_col = 0; size_col < mat_arg.no_cols(); size_col++)
RECURSIVE upsample_cols(_, _, _, _, _)
upsample_cols(mat_tmp, mat_arg, size_col, uint_u, junk) ==
    IF Evaluated(mat_tmp) /\ size_col < no_cols(mat_arg)
    THEN upsample_cols(upsample_rows(mat_tmp, mat_arg, size_col, 0, uint_u, junk),
                       mat_arg, size_col + 1, uint_u, junk)
    ELSE mat_tmp

\* upsample(x, u)
upsample(mat_arg, uint_u, junk) ==
    upsample_cols(matrix2(uint_u * no_rows(mat_arg), no_cols(mat_arg), junk),
                  mat_arg, 0, uint_u, junk)

downsample_row_dense(uint_row, uint_d) == uint_row

\* the row of the input copied to row uint_row of mat_tmp
downsample_row(uint_row, uint_d) == uint_row * uint_d

\* for (uint_row = 0; uint_row < mat_arg.no_rows()/uint_d; uint_row++)
RECURSIVE downsample_rows(_, _, _, _, _, _)
downsample_rows(mat_tmp, mat_arg, size_col, uint_row, uint_d, junk) ==
    IF Evaluated(mat_tmp) /\ uint_row < no_rows(mat_arg) \div uint_d
    THEN downsample_rows(set2(mat_tmp, uint_row, size_col,
                              get2(mat_arg, downsample_row(uint_row, uint_d), size_col, junk)),
                         mat_arg, size_col, uint_row + 1, uint_d, junk)
    ELSE mat_tmp

\* for (size_col = 0; size_col < mat_arg.no_cols(); size_col++)
RECURSIVE downsample_cols(_, _, _, _, _)
downsample_cols(mat_tmp, mat_arg, size_col, uint_d, junk) ==
    IF Evaluated(mat_tmp) /\ size_col < no_cols(mat_arg)
    THEN downsample_cols(downsample_rows(mat_tmp, mat_arg, size_col, 0, uint_d, junk),
                         mat_arg, size_col + 1, uint_d, junk)
    ELSE mat_tmp

\* downsample(x, d)
downsample(mat_arg, uint_d, junk) ==
    downsample_cols(matrix2(no_rows(mat_arg) \div uint_d, no_cols(mat_arg), junk),
                    mat_arg, 0, uint_d, junk)

\* the sized constructor's assertion, as reached from upsample / downsample
sample_faults(rows, cols) == IF ctor_assert(rows, cols) THEN {} ELSE {"assert"}

(***************************************************************************)
(* matrix.h: shape, resize, copy, move, the string parser                  *)
(***************************************************************************)
\* shape() with the two dimensions exchanged
shape_swapped(m) == <<m.cols, m.rows>>

\* shape(): the tuple (sizet_rows, sizet_cols)
shape(m) == <<m.rows, m.cols>>

\* resize(rows, cols) without the allocation: the dimensions are set, the
\* buffer is left as it is
resize_no_allocate(m, sizet_rows, sizet_cols, junk) ==
    [rows |-> IF sizet_rows < 2 THEN 1 ELSE sizet_rows,
     cols |-> IF sizet_cols < 2 THEN 1 ELSE sizet_cols,
     data |-> m.data]

\* resize(rows, cols): the dimensions are normalised as in the sized
\* constructor and the buffer is allocated anew; the prior state is not used
resize(m, sizet_rows, sizet_cols, junk) == matrix2(sizet_rows, sizet_cols, junk)

\* susa::memory<T>'s copy (constructor and operator=): a deep copy of the
\* buffer, element for element
memory_copy(m) == m.data

\* matrix(const matrix&) and operator=(const matrix&): the buffer is copied;
\* the shape is taken over when there is a buffer (_matrix != nullptr) and is
\* 0 x 0 when there is none
copy(mat_arg) ==
    IF size(mat_arg) > 0
    THEN [rows |-> mat_arg.rows, cols |-> mat_arg.cols, data |-> memory_copy(mat_arg)]
    ELSE [rows |-> 0, cols |-> 0, data |-> memory_copy(mat_arg)]

\* susa::memory<T>'s move constructor: the buffer changes owner, the source
\* is left with no buffer
memory_moved_from(m) == << >>

\* what matrix(matrix&& mat_arg) leaves in mat_arg: its buffer is moved out,
\* its T_fake is set to nullptr, sizet_rows and sizet_cols are not assigned
move_source(mat_arg) ==
    [rows |-> mat_arg.rows, cols |-> mat_arg.cols,
     data |-> memory_moved_from(mat_arg)]

\* the object matrix(matrix&& mat_arg) constructs: mat_arg's buffer and shape
move_dest(mat_arg) ==
    [rows |-> mat_arg.rows, cols |-> mat_arg.cols, data |-> mat_arg.data]

\* T_delta of the parser: 0x30 for the 8-bit element types, 0 for T here
T_delta == 0

\* the decimal digits
Digit ==
    [ch \in {"0", "1", "2", "3", "4", "5", "6", "7", "8", "9"} |->
        CASE ch = "0" -> 0 [] ch = "1" -> 1 [] ch = "2" -> 2 [] ch = "3" -> 3
          [] ch = "4" -> 4 [] ch = "5" -> 5 [] ch = "6" -> 6 [] ch = "7" -> 7
          [] ch = "8" -> 8 [] ch = "9" -> 9]

\* std::istringstream(char_buff) >> T_tmp, with T_tmp = 0 when it fails: the
\* value of the digits the token starts with, 0 when it starts with none
RECURSIVE extract(_, _, _)
extract(char_buff, i, T_tmp) ==
    IF i <= Len(char_buff) /\ char_buff[i] \in DOMAIN Digit
    THEN extract(char_buff, i + 1, T_tmp * 10 + Digit[char_buff[i]])
    ELSE T_tmp

\* the number of characters of str that are ch
count_chars(str, ch) == Cardinality({i \in 1..Len(str) : str[i] = ch})

\* the k-th (from 0) call of getline(char_buff, MAX_STR_LEN, delim) on a
\* stream over str: the characters between the k-th and the (k+1)-th
\* delimiter; the empty string once the stream is exhausted
getline(str, delim, k) ==
    LET cuts == {i \in 1..Len(str) : str[i] = delim}
        cut(j) == CHOOSE i \in cuts : Cardinality({c \in cuts : c < i}) = j - 1
        from == IF k = 0 THEN 1
                ELSE IF k <= Cardinality(cuts) THEN cut(k) + 1 ELSE Len(str) + 1
        to == IF k < Cardinality(cuts) THEN cut(k + 1) - 1 ELSE Len(str)
    IN  SubSeq(str, from, to)

\* parser: sizet_rows_ after the counting loop and the final increment
parser_rows_(str_string) ==
    count_chars(str_string, ";") + count_chars(str_string, "\n") + 1

\* parser: sizet_cols_ after the counting loop and the final increment
parser_cols_(str_string) ==
    count_chars(str_string, ";") + count_chars(str_string, " ") + 1

\* parser: for (sizet_col = 0; sizet_col < sizet_cols; sizet_col++), the
\* tokens of one row stored at get_lindex(sizet_row, sizet_col)
RECURSIVE parser_row(_, _, _, _)
parser_row(m, ssrow, sizet_row, sizet_col) ==
    IF Evaluated(m) /\ sizet_col < m.cols
    THEN parser_row([m EXCEPT !.data[get_lindex(m, sizet_row, sizet_col) + 1] =
                         extract(getline(ssrow, " ", sizet_col), 1, 0) - T_delta],
                    ssrow, sizet_row, sizet_col + 1)
    ELSE m

\* parser: for (sizet_row = 0; sizet_row < sizet_rows; sizet_row++), one
\* getline up to ';' per row
RECURSIVE parser_fill(_, _, _)
parser_fill(m, ss_all, sizet_row) ==
    IF Evaluated(m) /\ sizet_row < m.rows
    THEN parser_fill(parser_row(m, getline(ss_all, ";", sizet_row), sizet_row, 0),
                     ss_all, sizet_row + 1)
    ELSE m

\* the parser with the shape set before the test of the column count
parser_shape_first(m, str_string, junk) ==
    LET sizet_rows_ == parser_rows_(str_string)
        sizet_cols_ == parser_cols_(str_string)
    IN  IF sizet_cols_ % sizet_rows_ # 0
        THEN [m |-> [rows |-> sizet_rows_, cols |-> sizet_cols_ \div sizet_rows_,
                     data |-> m.data],
              ok |-> FALSE]
        ELSE [m |-> parser_fill([rows |-> sizet_rows_,
                                 cols |-> sizet_cols_ \div sizet_rows_,
                                 data |-> allocate(sizet_cols_, junk)],
                                str_string, 0),
              ok |-> TRUE]

\* bool parser(str_string) on the object m, str_string being the string as
\* pre_parser leaves it: the object afterwards (m) and the value returned
\* (ok)
parser(m, str_string, junk) ==
    LET sizet_rows_ == parser_rows_(str_string)
        sizet_cols_ == parser_cols_(str_string)
        sizet_rows == sizet_rows_
        sizet_cols == sizet_cols_ \div sizet_rows_
        sizet_size == sizet_cols * sizet_rows
    IN  IF sizet_cols_ % sizet_rows_ # 0 THEN [m |-> m, ok |-> FALSE]
        ELSE IF sizet_cols_ * sizet_rows_ # 0
        THEN [m |-> parser_fill([rows |-> sizet_rows, cols |-> sizet_cols,
                                 data |-> IF size(m) # sizet_size
                                          THEN allocate(sizet_size, junk)
                                          ELSE m.data],
                                str_string, 0),
              ok |-> TRUE]
        ELSE [m |-> matrix0, ok |-> TRUE]

\* SUSA_ASSERT_MESSAGE(sizet_cols_ % sizet_rows_ == 0, ...) of the parser
parser_faults(str_string) ==
    IF parser_cols_(str_string) % parser_rows_(str_string) = 0 THEN {} ELSE {"assert"}

(***************************************************************************)
(* matrix.h: element-wise arithmetic of two matrices                       *)
(***************************************************************************)
\* the number of values of the element type T, an unsigned integer type of
\* TBits bits
T_mod == 2 ^ TBits

\* l o r on two elements of T with the result held at the largest value of
\* T (and at 0) where it does not fit
T_binary_saturating(o, l, r, junk) ==
    LET v == CASE o = "+" -> l + r
               [] o = "-" -> l - r
               [] o = "*" -> l * r
               [] o = "/" -> IF r = 0 THEN junk ELSE l \div r
    IN  IF v < 0 THEN 0 ELSE IF v >= T_mod THEN T_mod - 1 ELSE v

\* l o r on two elements of T, o one of + - * /: the arithmetic of an
\* unsigned type, modulo 2^TBits; an integer division by zero is undefined
\* and gives whatever the build gives (junk)
T_binary(o, l, r, junk) ==
    CASE o = "+" -> (l + r) % T_mod
      [] o = "-" -> (l - r) % T_mod
      [] o = "*" -> (l * r) % T_mod
      [] o = "/" -> IF r = 0 THEN junk ELSE l \div r

\* the test both forms make before their loop
same_shape(mat_argl, mat_argr) ==
    mat_argl.rows = mat_argr.rows /\ mat_argl.cols = mat_argr.cols

\* for (sizet_index = 0; sizet_index < sizet_size; sizet_index++)
\*     mat_ret._matrix[sizet_index] =
\*         mat_argl._matrix[sizet_index] o mat_argr._matrix[sizet_index];
RECURSIVE binary_loop(_, _, _, _, _, _, _)
binary_loop(mat_ret, o, mat_argl, mat_argr, sizet_index, sizet_size, junk) ==
    IF Evaluated(mat_ret) /\ sizet_index < sizet_size
    THEN binary_loop(set1(mat_ret, sizet_index,
                          T_binary(o, get1(mat_argl, sizet_index, junk),
                                   get1(mat_argr, sizet_index, junk), junk)),
                     o, mat_argl, mat_argr, sizet_index + 1, sizet_size, junk)
    ELSE mat_ret

\* operator+, operator-, operator*, operator/ (mat_argl, mat_argr): mat_ret
\* is constructed with the left operand's shape and uninitialised elements,
\* and is filled only when the shapes are the same
binary(o, mat_argl, mat_argr, junk) ==
    LET mat_ret == matrix2(mat_argl.rows, mat_argl.cols, junk)
    IN  IF same_shape(mat_argl, mat_argr)
        THEN binary_loop(mat_ret, o, mat_argl, mat_argr, 0, size(mat_argl), junk)
        ELSE mat_ret

\* operator*(mat_argl, T_arg):
\* for (sizet_index = 0; sizet_index < sizet_size; sizet_index++)
\*     mat_ret._matrix[sizet_index] = mat_argl._matrix[sizet_index] * T_arg;
RECURSIVE times_scalar_loop(_, _, _, _, _)
times_scalar_loop(mat_ret, mat_argl, T_arg, sizet_index, junk) ==
    IF Evaluated(mat_ret) /\ sizet_index < size(mat_argl)
    THEN times_scalar_loop(set1(mat_ret, sizet_index,
                                T_binary("*", get1(mat_argl, sizet_index, junk),
                                         T_arg, junk)),
                           mat_argl, T_arg, sizet_index + 1, junk)
    ELSE mat_ret

\* operator*(mat_argl, T_arg): mat_ret is constructed with the operand's
\* shape and uninitialised elements, then filled
times_scalar(mat_argl, T_arg, junk) ==
    times_scalar_loop(matrix2(mat_argl.rows, mat_argl.cols, junk), mat_argl,
                      T_arg, 0, junk)

\* operator+= and operator-= without the test of the shapes
compound_unchecked(o, this, mat_arg, junk) ==
    binary_loop(this, o, this, mat_arg, 0, size(this), junk)

\* operator+= (o is "+") and operator-= (o is "-") on the object this: the
\* object afterwards, which is also the value returned (return *this)
compound(o, this, mat_arg, junk) ==
    IF same_shape(mat_arg, this) /\ size(this) > 0
    THEN binary_loop(this, o, this, mat_arg, 0, size(this), junk)
    ELSE this

\* SUSA_ASSERT_MESSAGE: "the matrices have different sizes."
binary_faults(mat_argl, mat_argr) ==
    IF same_shape(mat_argl, mat_argr) THEN {} ELSE {"assert"}

(***************************************************************************)
(* matrix.h: set_row, set_col, shrink, operator== and operator!=           *)
(***************************************************************************)
\* the loop of set_row / set_col with the source read one element further
RECURSIVE set_loop_next(_, _, _, _, _, _)
set_loop_next(st, mat_arg, fixed, by_col, indx, junk) ==
    IF Evaluated(st) /\ indx < (IF by_col THEN st.m.rows ELSE st.m.cols)
    THEN LET lindex == IF by_col THEN get_lindex(st.m, indx, fixed)
                       ELSE get_lindex(st.m, fixed, indx)
         IN  set_loop_next(
                 IF lindex < size(st.m)
                 THEN [st EXCEPT !.m.data[lindex + 1] = get1(mat_arg, indx + 1, junk)]
                 ELSE [st EXCEPT !.f = @ \cup {"write_out_of_range"}],
                 mat_arg, fixed, by_col, indx + 1, junk)
    ELSE st

\* set_row: for (indx = 0; indx < sizet_cols; indx++)
\*              _matrix[get_lindex(row, indx)] = mat_arg._matrix[indx];
\* set_col (by_col): for (indx = 0; indx < sizet_rows; indx++)
\*              _matrix[get_lindex(indx, col)] = mat_arg._matrix[indx];
\* st is the object (m) and what went wrong so far (f).  The store goes to
\* the buffer directly: past its end it is a write outside the buffer, which
\* is recorded and leaves the elements of the matrix as they are.
RECURSIVE set_loop(_, _, _, _, _, _)
set_loop(st, mat_arg, fixed, by_col, indx, junk) ==
    IF Evaluated(st) /\ indx < (IF by_col THEN st.m.rows ELSE st.m.cols)
    THEN LET lindex == IF by_col THEN get_lindex(st.m, indx, fixed)
                       ELSE get_lindex(st.m, fixed, indx)
         IN  set_loop(
                 IF lindex < size(st.m)
                 THEN [st EXCEPT !.m.data[lindex + 1] = get1(mat_arg, indx, junk)]
                 ELSE [st EXCEPT !.f = @ \cup {"write_out_of_range"}],
                 mat_arg, fixed, by_col, indx + 1, junk)
    ELSE st

\* bool set_row(row, mat_arg) on the object this: the object afterwards (m),
\* the value returned (ok) and what went wrong (f)
set_row(this, row, mat_arg, junk) ==
    LET asserted == IF row < this.rows \/ size(mat_arg) >= this.cols
                    THEN {} ELSE {"assert"}
    IN  IF row > this.rows \/ size(mat_arg) < this.cols
        THEN [m |-> this, f |-> asserted, ok |-> FALSE]
        ELSE LET st == set_loop([m |-> this, f |-> asserted], mat_arg, row,
                                FALSE, 0, junk)
             IN  [m |-> st.m, f |-> st.f, ok |-> TRUE]

\* bool set_col(col, mat_arg) on the object this
set_col(this, col, mat_arg, junk) ==
    LET asserted == IF col < this.cols \/ size(mat_arg) >= this.rows
                    THEN {} ELSE {"assert"}
    IN  IF col > this.cols \/ size(mat_arg) < this.rows
        THEN [m |-> this, f |-> asserted, ok |-> FALSE]
        ELSE LET st == set_loop([m |-> this, f |-> asserted], mat_arg, col,
                                TRUE, 0, junk)
             IN  [m |-> st.m, f |-> st.f, ok |-> TRUE]

\* shrink: the index an eliminated-or-later index moves to, with the
\* eliminated index itself moved down as well
shrink_new_from(sizet_index, sizet_elim) ==
    IF sizet_index >= sizet_elim THEN sizet_index - 1 ELSE sizet_index

\* shrink: sizet_new_row = sizet_row > sizet_elim_row ? (sizet_row - 1) : sizet_row
\* (and the same for the column)
shrink_new(sizet_index, sizet_elim) ==
    IF sizet_index > sizet_elim THEN sizet_index - 1 ELSE sizet_index

\* shrink: for (sizet_col = 0; sizet_col < sizet_cols; sizet_col++)
RECURSIVE shrink_cols(_, _, _, _, _, _, _)
shrink_cols(mat_ret, this, sizet_elim_row, sizet_elim_col, sizet_row, sizet_col, junk) ==
    IF Evaluated(mat_ret) /\ sizet_col < this.cols
    THEN LET sizet_new_row == shrink_new(sizet_row, sizet_elim_row)
             sizet_new_col == shrink_new(sizet_col, sizet_elim_col)
         IN  shrink_cols(
                 IF /\ sizet_col # sizet_elim_col \/ sizet_row # sizet_elim_row
                    /\ sizet_new_row < this.rows - 1
                    /\ sizet_new_col < this.cols - 1
                 THEN set2(mat_ret, sizet_new_row, sizet_new_col,
                           get1(this, get_lindex(this, sizet_row, sizet_col), junk))
                 ELSE mat_ret,
                 this, sizet_elim_row, sizet_elim_col, sizet_row, sizet_col + 1, junk)
    ELSE mat_ret

\* shrink: for (sizet_row = 0; sizet_row < sizet_rows; sizet_row++)
RECURSIVE shrink_rows(_, _, _, _, _, _)
shrink_rows(mat_ret, this, sizet_elim_row, sizet_elim_col, sizet_row, junk) ==
    IF Evaluated(mat_ret) /\ sizet_row < this.rows
    THEN shrink_rows(shrink_cols(mat_ret, this, sizet_elim_row, sizet_elim_col,
                                 sizet_row, 0, junk),
                     this, sizet_elim_row, sizet_elim_col, sizet_row + 1, junk)
    ELSE mat_ret

\* matrix shrink(sizet_elim_row, sizet_elim_col) const: the matrix returned;
\* mat_ret is built by the constructor that leaves its elements as they are
shrink(this, sizet_elim_row, sizet_elim_col, junk) ==
    IF this.cols > 1 /\ this.rows > 1 /\ sizet_elim_row >= 0 /\ sizet_elim_col >= 0
    THEN IF sizet_elim_col < this.cols /\ sizet_elim_row < this.rows
         THEN shrink_rows(copy(matrix2(this.rows - 1, this.cols - 1, junk)), this,
                          sizet_elim_row, sizet_elim_col, 0, junk)
         ELSE copy(this)
    ELSE copy(this)

\* shrink: the two SUSA_ASSERT_MESSAGEs
shrink_faults(this, sizet_elim_row, sizet_elim_col) ==
    IF /\ this.cols > 1 /\ this.rows > 1
       /\ sizet_elim_col < this.cols /\ sizet_elim_row < this.rows
    THEN {} ELSE {"assert"}

\* the loop of operator== and operator!=:
\*   for (sizet_indx = 0; sizet_indx < mat_argl.sizet_objects; sizet_indx++)
\*       if (mat_argl._matrix[sizet_indx] != mat_argr._matrix[sizet_indx]) return ...;
\* differ is whether the loop returned from inside; f records a read of
\* mat_argr's buffer past its end, which yields whatever is there (junk)
RECURSIVE compare(_, _, _, _, _)
compare(mat_argl, mat_argr, sizet_indx, f, junk) ==
    IF Evaluated(f) /\ sizet_indx < size(mat_argl)
    THEN LET read == IF sizet_indx < size(mat_argr) THEN f
                     ELSE f \cup {"read_out_of_range"}
         IN  IF mat_argl.data[sizet_indx + 1] # get1(mat_argr, sizet_indx, junk)
             THEN [differ |-> TRUE, f |-> read]
             ELSE compare(mat_argl, mat_argr, sizet_indx + 1, read, junk)
    ELSE [differ |-> FALSE, f |-> f]

\* bool operator!=(mat_argl, mat_argr)
not_equal(mat_argl, mat_argr, junk) == compare(mat_argl, mat_argr, 0, {}, junk).differ

\* bool operator==(mat_argl, mat_argr)
equal(mat_argl, mat_argr, junk) == ~compare(mat_argl, mat_argr, 0, {}, junk).differ

(***************************************************************************)
(* matrix.h: left, right, mid                                              *)
(***************************************************************************)
\* the three-way if of left, right and mid: mat_ret, default-constructed, is
\* assigned a 1 x n matrix for a row vector and an n x 1 matrix for a column
\* vector, elements not initialised; for rows != 1 and cols != 1 the
\* assertion "not implemented." fails and mat_ret stays empty, as it does for
\* a 1 x 1 matrix
slice_ret(this, n, junk) ==
    IF this.rows = 1 /\ this.cols # 1 THEN copy(matrix2(1, n, junk))
    ELSE IF this.rows # 1 /\ this.cols = 1 THEN copy(matrix2(n, 1, junk))
    ELSE matrix0

\* SUSA_ASSERT_MESSAGE(false, "not implemented.")
slice_faults(this) ==
    IF this.rows # 1 /\ this.cols # 1 THEN {"assert"} ELSE {}

\* the loop of mid with the source read from sizet_i + 1
RECURSIVE mid_loop_next(_, _, _, _, _, _)
mid_loop_next(mat_ret, this, sizet_begin, sizet_end, sizet_i, junk) ==
    IF Evaluated(mat_ret) /\ sizet_i <= sizet_end
    THEN mid_loop_next(set1(mat_ret, sizet_i - sizet_begin, get1(this, sizet_i + 1, junk)),
                       this, sizet_begin, sizet_end, sizet_i + 1, junk)
    ELSE mat_ret

\* left: for (sizet_i = 0; sizet_i < sizet_left; sizet_i++)
\*           mat_ret(sizet_i) = this->_matrix[sizet_i];
\* mid:  for (sizet_i = sizet_begin; sizet_i <= sizet_end; sizet_i++)
\*           mat_ret(sizet_i - sizet_begin) = this->_matrix[sizet_i];
\* (left is the loop of mid from 0 to sizet_left - 1)
RECURSIVE mid_loop(_, _, _, _, _, _)
mid_loop(mat_ret, this, sizet_begin, sizet_end, sizet_i, junk) ==
    IF Evaluated(mat_ret) /\ sizet_i <= sizet_end
    THEN mid_loop(set1(mat_ret, sizet_i - sizet_begin, get1(this, sizet_i, junk)),
                  this, sizet_begin, sizet_end, sizet_i + 1, junk)
    ELSE mat_ret

\* right: for (sizet_i = sizet_objects; sizet_i > sizet_objects - sizet_right; sizet_i--)
\*            mat_ret(sizet_right - sizet_objects + sizet_i - 1) = this->_matrix[sizet_i - 1];
\* the index is computed in size_t, modulo SizeMod
RECURSIVE right_loop(_, _, _, _, _)
right_loop(mat_ret, this, sizet_right, sizet_i, junk) ==
    IF Evaluated(mat_ret) /\ sizet_i > size(this) - sizet_right
    THEN right_loop(set1(mat_ret, (sizet_right - size(this) + sizet_i - 1) % SizeMod,
                         get1(this, sizet_i - 1, junk)),
                    this, sizet_right, sizet_i - 1, junk)
    ELSE mat_ret

\* matrix left(sizet_left) const: the matrix returned (m) and the assertions
\* that failed (f)
left(this, sizet_left, junk) ==
    IF size(this) >= sizet_left
    THEN [m |-> mid_loop(slice_ret(this, sizet_left, junk), this, 0,
                         sizet_left - 1, 0, junk),
          f |-> slice_faults(this)]
    ELSE [m |-> matrix0, f |-> {"assert"}]

\* matrix right(sizet_right) const
right(this, sizet_right, junk) ==
    IF size(this) < sizet_right THEN [m |-> matrix0, f |-> {"assert"}]
    ELSE IF size(this) = sizet_right THEN [m |-> copy(this), f |-> {}]
    ELSE [m |-> right_loop(slice_ret(this, sizet_right, junk), this, sizet_right,
                           size(this), junk),
          f |-> slice_faults(this)]

\* matrix mid(sizet_begin, sizet_end) const
mid(this, sizet_begin, sizet_end, junk) ==
    IF size(this) > sizet_begin /\ size(this) > sizet_end /\ sizet_end > sizet_begin
    THEN [m |-> mid_loop(slice_ret(this, sizet_end - sizet_begin + 1, junk), this,
                         sizet_begin, sizet_end, sizet_begin, junk),
          f |-> slice_faults(this)]
    ELSE [m |-> matrix0, f |-> {"assert"}]

(***************************************************************************)
(* Inputs                                                                  *)
(***************************************************************************)
\* every r x c matrix over Vals
MatricesOf(r, c) ==
    {[rows |-> r, cols |-> c, data |-> d] : d \in [1..(r * c) -> Vals]}

Scalars == MatricesOf(1, 1)

RowVectors == UNION {MatricesOf(1, n) : n \in 2..MaxLen}

ColVectors == UNION {MatricesOf(n, 1) : n \in 2..MaxLen}

\* general matrices: two columns, 2..MaxLen rows
GenMatrices == UNION {MatricesOf(n, 2) : n \in 2..MaxLen}

\* the general matrices given to filter: two columns, 2..MaxLen-1 rows
FilterMatrices == UNION {MatricesOf(n, 2) : n \in 2..(MaxLen - 1)}

\* coefficient vectors of filter
Coefs == UNION {MatricesOf(1, n) : n \in 1..MaxCoef}

(***************************************************************************)
(* Calls: the initial state holds the arguments of one pending call        *)
(* (pc = "call"); the call's action runs the function and records what it  *)
(* returns (pc = "return").                                                *)
(***************************************************************************)
\* y = filter(b, a, x, size_length) is pending
InitFilter ==
    /\ pc = "call"
    /\ op = "filter"
    /\ arg_b \in Coefs
    /\ arg_a \in Coefs
    /\ arg_x \in Scalars \cup RowVectors \cup ColVectors \cup FilterMatrices
    /\ arg_n \in 0..MaxExtra
    /\ heap \in Vals
    /\ ret = matrix0
    /\ faults = {}

\* y = filter(b, a, x, size_length)
FilterCall ==
    /\ pc = "call"
    /\ op = "filter"
    /\ pc' = "return"
    /\ ret' = filter(arg_b, arg_a, arg_x, arg_n, heap)
    /\ UNCHANGED <<op, arg_a, arg_b, arg_x, arg_n, heap, faults>>

NextFilter == FilterCall

SpecFilter == InitFilter /\ [][NextFilter]_vars

\* every shape conv, upsample and downsample are given
AnyShape == Scalars \cup RowVectors \cup ColVectors \cup GenMatrices

\* vectors of 1..MaxLen elements in either orientation
Vectors == Scalars \cup RowVectors \cup ColVectors

\* r = conv(a, b) is pending
InitConvCall ==
    /\ pc = "call"
    /\ op = "conv"
    /\ arg_a \in AnyShape
    /\ arg_b \in AnyShape
    /\ arg_x = matrix0
    /\ arg_n = 0
    /\ heap \in Vals
    /\ ret = matrix0
    /\ faults = {}

\* M = convmtx(h, n) is pending; x is the length-n vector (in h's orientation)
\* that M is later multiplied with
InitConvmtxCall ==
    /\ pc = "call"
    /\ op = "convmtx"
    /\ arg_a \in RowVectors \cup ColVectors
    /\ arg_b = matrix0
    /\ arg_n \in 1..MaxLen
    /\ arg_x \in IF arg_a.cols = 1 THEN MatricesOf(arg_n, 1) ELSE MatricesOf(1, arg_n)
    /\ heap \in Vals
    /\ ret = matrix0
    /\ faults = {}

InitConv == InitConvCall \/ InitConvmtxCall

\* r = conv(a, b)
ConvCall ==
    /\ pc = "call"
    /\ op = "conv"
    /\ pc' = "return"
    /\ ret' = conv(arg_a, arg_b, heap)
    /\ faults' = conv_faults(arg_a, arg_b)
    /\ UNCHANGED <<op, arg_a, arg_b, arg_x, arg_n, heap>>

\* M = convmtx(h, n)
ConvmtxCall ==
    /\ pc = "call"
    /\ op = "convmtx"
    /\ pc' = "return"
    /\ ret' = convmtx(arg_a, arg_n, heap)
    /\ faults' = convmtx_faults(arg_a)
    /\ UNCHANGED <<op, arg_a, arg_b, arg_x, arg_n, heap>>

NextConv == ConvCall \/ ConvmtxCall

SpecConv == InitConv /\ [][NextConv]_vars

\* M = toeplitz(col) or M = toeplitz(col, row) is pending
InitToeplitz ==
    /\ pc = "call"
    /\ \/ op = "toeplitz1" /\ arg_a \in Vectors /\ arg_b = matrix0
       \/ op = "toeplitz2" /\ arg_a \in RowVectors \cup ColVectors
                           /\ arg_b \in RowVectors \cup ColVectors
    /\ arg_x = matrix0
    /\ arg_n = 0
    /\ heap \in Vals
    /\ ret = matrix0
    /\ faults = {}

\* M = toeplitz(col)
Toeplitz1Call ==
    /\ pc = "call"
    /\ op = "toeplitz1"
    /\ pc' = "return"
    /\ ret' = toeplitz1(arg_a, heap).m
    /\ faults' = toeplitz1(arg_a, heap).f
    /\ UNCHANGED <<op, arg_a, arg_b, arg_x, arg_n, heap>>

\* M = toeplitz(col, row)
Toeplitz2Call ==
    /\ pc = "call"
    /\ op = "toeplitz2"
    /\ pc' = "return"
    /\ ret' = toeplitz2(arg_a, arg_b, heap).m
    /\ faults' = toeplitz2(arg_a, arg_b, heap).f
    /\ UNCHANGED <<op, arg_a, arg_b, arg_x, arg_n, heap>>

NextToeplitz == Toeplitz1Call \/ Toeplitz2Call

SpecToeplitz == InitToeplitz /\ [][NextToeplitz]_vars

\* y = upsample(x, u) or y = downsample(x, d) is pending
InitSample ==
    /\ pc = "call"
    /\ op \in {"upsample", "downsample"}
    /\ arg_a = matrix0
    /\ arg_b = matrix0
    /\ arg_x \in AnyShape
    /\ arg_n \in 1..MaxRate
    /\ heap \in Vals
    /\ ret = matrix0
    /\ faults = {}

\* y = upsample(x, u)
UpsampleCall ==
    /\ pc = "call"
    /\ op = "upsample"
    /\ pc' = "return"
    /\ ret' = upsample(arg_x, arg_n, heap)
    /\ faults' = sample_faults(arg_n * no_rows(arg_x), no_cols(arg_x))
    /\ UNCHANGED <<op, arg_a, arg_b, arg_x, arg_n, heap>>

\* y = downsample(x, d)
DownsampleCall ==
    /\ pc = "call"
    /\ op = "downsample"
    /\ pc' = "return"
    /\ ret' = downsample(arg_x, arg_n, heap)
    /\ faults' = sample_faults(no_rows(arg_x) \div arg_n, no_cols(arg_x))
    /\ UNCHANGED <<op, arg_a, arg_b, arg_x, arg_n, heap>>

\* z = downsample(y, u) on the y just returned by upsample(x, u); the new
\* buffer is allocated over whatever the heap holds by then
DownsampleOfUpsampled ==
    /\ pc = "return"
    /\ op = "upsample"
    /\ op' = "updown"
    /\ heap' \in Vals
    /\ ret' = downsample(ret, arg_n, heap')
    /\ faults' = faults \cup sample_faults(no_rows(ret) \div arg_n, no_cols(ret))
    /\ UNCHANGED <<pc, arg_a, arg_b, arg_x, arg_n>>

NextSample == UpsampleCall \/ DownsampleCall \/ DownsampleOfUpsampled

SpecSample == InitSample /\ [][NextSample]_vars

(***************************************************************************)
(* The life of one matrix object: arg_a is the object, op the operation    *)
(* last applied to it, arg_n the dimensions and arg_b the matrix that      *)
(* operation was given, ret what it returned, heap the contents of the     *)
(* memory it allocated.                                                    *)
(***************************************************************************)
\* the characters a token is made of: digits and a character that is none
TokenChars == {"0", "1", "x"}

\* the strings of n one-character tokens, each two separated by a space
\* (next column) or a semicolon (next row)
StringsOf(n) ==
    {[i \in 1..(2 * n - 1) |-> IF i % 2 = 1 THEN t[(i + 1) \div 2] ELSE sep[i \div 2]] :
        t \in [1..n -> TokenChars], sep \in [1..(n - 1) -> {" ", ";"}]}

\* the strings given to the parser: the empty string and up to MaxTok tokens
Strings == {<< >>} \cup UNION {StringsOf(n) : n \in 1..MaxTok}

\* the (rows, cols) given to the sized and tuple constructors and to resize
Shapes == (0..MaxLen) \X (0..MaxCols)

\* the matrices given to the copy assignment: the empty one and filled ones
CopySources ==
    {matrix0} \cup {matrix3(s[1], s[2], v) : s \in Shapes, v \in Vals}

InitMatrix ==
    /\ pc = "live"
    /\ op = "matrix()"
    /\ arg_a = matrix0
    /\ arg_b = matrix0
    /\ arg_x = << >>
    /\ arg_n = <<0, 0>>
    /\ heap = 0
    /\ ret = TRUE
    /\ faults = {}

\* the object is (re)constructed or modified by the operation name
Applied(name, object, other, dims, junk, returned, failed) ==
    /\ pc = "live"
    /\ pc' = pc
    /\ op' = name
    /\ arg_a' = object
    /\ arg_b' = other
    /\ arg_n' = dims
    /\ arg_x' = arg_x
    /\ heap' = junk
    /\ ret' = returned
    /\ faults' = failed

\* matrix(): the empty matrix
DefaultCtor ==
    Applied("matrix()", matrix0, matrix0, <<0, 0>>, heap, TRUE, {})

\* matrix(rows, cols)
SizedCtor ==
    \E s \in Shapes, junk \in Vals :
        Applied("matrix(rows,cols)", matrix2(s[1], s[2], junk), matrix0, s,
                junk, TRUE, sample_faults(s[1], s[2]))

\* matrix(rows, cols, Tinitial)
FillCtor ==
    \E s \in Shapes, Tinitial \in Vals :
        Applied("matrix(rows,cols,initial)", matrix3(s[1], s[2], Tinitial),
                matrix0, s, heap, TRUE, sample_faults(s[1], s[2]))

\* matrix(tshape)
TupleCtor ==
    \E tshape \in Shapes, junk \in Vals :
        Applied("matrix(tshape)", matrix2(tshape[1], tshape[2], junk), matrix0,
                tshape, junk, TRUE, sample_faults(tshape[1], tshape[2]))

\* matrix(tshape, Tinitial)
TupleFillCtor ==
    \E tshape \in Shapes, Tinitial \in Vals :
        Applied("matrix(tshape,initial)", matrix3(tshape[1], tshape[2], Tinitial),
                matrix0, tshape, heap, TRUE,
                sample_faults(tshape[1], tshape[2]))

\* matrix(str_string): the parser runs on an object with no buffer
StringCtor ==
    \E str_string \in Strings, junk \in Vals :
        Applied("matrix(string)", parser(matrix0, str_string, junk).m, matrix0,
                <<0, 0>>, junk, TRUE, parser_faults(str_string))

\* resize(rows, cols)
Resize ==
    \E s \in Shapes, junk \in Vals :
        Applied("resize", resize(arg_a, s[1], s[2], junk), matrix0, s,
                junk, TRUE, sample_faults(s[1], s[2]))

\* operator=(str_string): the parser runs on the object as it is
StringAssign ==
    \E str_string \in Strings, junk \in Vals :
        Applied("operator=(string)", parser(arg_a, str_string, junk).m, matrix0,
                <<0, 0>>, junk, parser(arg_a, str_string, junk).ok,
                parser_faults(str_string))

\* matrix(mat_arg): a new object copied from the object; the new object is
\* followed from here on, arg_b is the one it was copied from
CopyCtor ==
    Applied("matrix(matrix)", copy(arg_a), arg_a, <<0, 0>>, heap, TRUE, {})

\* operator=(mat_arg)
CopyAssign ==
    \E mat_arg \in CopySources :
        Applied("operator=(matrix)", copy(mat_arg), mat_arg, <<0, 0>>,
                heap, TRUE, {})

NextMatrix ==
    \/ DefaultCtor
    \/ SizedCtor
    \/ FillCtor
    \/ TupleCtor
    \/ TupleFillCtor
    \/ StringCtor
    \/ Resize
    \/ StringAssign
    \/ CopyCtor
    \/ CopyAssign

SpecMatrix == InitMatrix /\ [][NextMatrix]_vars

(***************************************************************************)
(* Calls on a matrix object: arg_a is the object before the call, arg_x    *)
(* the object itself (after the call: as the call left it), arg_b the      *)
(* matrix and arg_n the numbers the call is given, ret what it returns.    *)
(***************************************************************************)
\* every matrix over Vals of at most MaxLen rows and columns and at most
\* 2 * MaxLen elements
Matrices ==
    UNION {MatricesOf(s[1], s[2]) :
              s \in {t \in (1..MaxLen) \X (1..MaxLen) : t[1] * t[2] <= 2 * MaxLen}}

\* row and column indices, in range and out of range
Indices == 0..MaxLen

InitObject ==
    /\ pc = "call"
    /\ faults = {}
    /\ ret = matrix0
    /\ heap \in Vals
    /\ arg_a \in Matrices
    /\ arg_x = arg_a
    /\ \/ /\ op = "matrix(matrix&&)"
          /\ arg_b = matrix0
          /\ arg_n = << >>
       \/ /\ op = "operator()(row,col)="
          /\ arg_b = matrix0
          /\ arg_n \in Indices \X Indices \X Vals
       \/ /\ op \in {"set_row", "set_col"}
          /\ arg_b \in Scalars \cup RowVectors
          /\ arg_n \in Indices
       \/ /\ op = "shrink"
          /\ arg_b = matrix0
          /\ arg_n \in Indices \X Indices

\* matrix <T> mat(std::move(object)): ret is the constructed matrix, arg_x
\* the object moved from
MoveCall ==
    /\ pc = "call"
    /\ op = "matrix(matrix&&)"
    /\ pc' = "return"
    /\ ret' = move_dest(arg_x)
    /\ arg_x' = move_source(arg_x)
    /\ UNCHANGED <<op, arg_a, arg_b, arg_n, heap, faults>>

\* object(row, col) = v, with (row, col, v) = arg_n
WriteCall ==
    /\ pc = "call"
    /\ op = "operator()(row,col)="
    /\ pc' = "return"
    /\ arg_x' = set2(arg_x, arg_n[1], arg_n[2], arg_n[3])
    /\ ret' = arg_n[3]
    /\ faults' = IF arg_n[1] < arg_x.rows /\ arg_n[2] < arg_x.cols
                 THEN {} ELSE {"assert"}
    /\ UNCHANGED <<op, arg_a, arg_b, arg_n, heap>>

\* ret = object.set_row(arg_n, arg_b)
SetRowCall ==
    /\ pc = "call"
    /\ op = "set_row"
    /\ pc' = "return"
    /\ arg_x' = set_row(arg_x, arg_n, arg_b, heap).m
    /\ ret' = set_row(arg_x, arg_n, arg_b, heap).ok
    /\ faults' = set_row(arg_x, arg_n, arg_b, heap).f
    /\ UNCHANGED <<op, arg_a, arg_b, arg_n, heap>>

\* ret = object.set_col(arg_n, arg_b)
SetColCall ==
    /\ pc = "call"
    /\ op = "set_col"
    /\ pc' = "return"
    /\ arg_x' = set_col(arg_x, arg_n, arg_b, heap).m
    /\ ret' = set_col(arg_x, arg_n, arg_b, heap).ok
    /\ faults' = set_col(arg_x, arg_n, arg_b, heap).f
    /\ UNCHANGED <<op, arg_a, arg_b, arg_n, heap>>

\* ret = object.shrink(arg_n[1], arg_n[2]); shrink is const
ShrinkCall ==
    /\ pc = "call"
    /\ op = "shrink"
    /\ pc' = "return"
    /\ ret' = shrink(arg_x, arg_n[1], arg_n[2], heap)
    /\ faults' = shrink_faults(arg_x, arg_n[1], arg_n[2])
    /\ UNCHANGED <<op, arg_a, arg_b, arg_x, arg_n, heap>>

NextObject ==
    \/ MoveCall
    \/ WriteCall
    \/ SetRowCall
    \/ SetColCall
    \/ ShrinkCall

SpecObject == InitObject /\ [][NextObject]_vars

(***************************************************************************)
(* Operators of two matrices: arg_a is the left operand (the object of +=  *)
(* and -=, before the call), arg_x the object after the call, arg_b the    *)
(* right operand, ret the value returned.                                  *)
(***************************************************************************)
\* the operands: every matrix over Vals of at most MaxLen rows and columns
\* and at most MaxLen + 1 elements
ArithOperands ==
    UNION {MatricesOf(s[1], s[2]) :
              s \in {t \in (1..MaxLen) \X (1..MaxLen) : t[1] * t[2] <= MaxLen + 1}}

InitArith ==
    /\ pc = "call"
    /\ arg_a \in ArithOperands
    /\ arg_x = arg_a
    /\ \/ /\ op \in {"+", "-", "*", "/", "+=", "-=", "==", "!=", "(+)-"}
          /\ arg_b \in ArithOperands
          /\ arg_n = 0
       \/ /\ op = "*scalar"
          /\ arg_b = matrix0
          /\ arg_n \in Vals
    /\ heap \in Vals
    /\ ret = matrix0
    /\ faults = {}

\* ret = arg_a + arg_b
PlusCall ==
    /\ pc = "call"
    /\ op = "+"
    /\ pc' = "return"
    /\ ret' = binary("+", arg_a, arg_b, heap)
    /\ faults' = binary_faults(arg_a, arg_b)
    /\ UNCHANGED <<op, arg_a, arg_b, arg_x, arg_n, heap>>

\* ret = arg_a - arg_b
MinusCall ==
    /\ pc = "call"
    /\ op = "-"
    /\ pc' = "return"
    /\ ret' = binary("-", arg_a, arg_b, heap)
    /\ faults' = binary_faults(arg_a, arg_b)
    /\ UNCHANGED <<op, arg_a, arg_b, arg_x, arg_n, heap>>

\* ret = arg_a * arg_b
TimesCall ==
    /\ pc = "call"
    /\ op = "*"
    /\ pc' = "return"
    /\ ret' = binary("*", arg_a, arg_b, heap)
    /\ faults' = binary_faults(arg_a, arg_b)
    /\ UNCHANGED <<op, arg_a, arg_b, arg_x, arg_n, heap>>

\* ret = arg_a / arg_b
DivideCall ==
    /\ pc = "call"
    /\ op = "/"
    /\ pc' = "return"
    /\ ret' = binary("/", arg_a, arg_b, heap)
    /\ faults' = binary_faults(arg_a, arg_b)
    /\ UNCHANGED <<op, arg_a, arg_b, arg_x, arg_n, heap>>

\* ret = (arg_x += arg_b): the object is changed in place and returned by
\* value
PlusAssignCall ==
    /\ pc = "call"
    /\ op = "+="
    /\ pc' = "return"
    /\ arg_x' = compound("+", arg_x, arg_b, heap)
    /\ ret' = copy(arg_x')
    /\ faults' = binary_faults(arg_b, arg_x)
    /\ UNCHANGED <<op, arg_a, arg_b, arg_n, heap>>

\* ret = (arg_x -= arg_b): the object is changed in place and returned by
\* value
MinusAssignCall ==
    /\ pc = "call"
    /\ op = "-="
    /\ pc' = "return"
    /\ arg_x' = compound("-", arg_x, arg_b, heap)
    /\ ret' = copy(arg_x')
    /\ faults' = binary_faults(arg_b, arg_x)
    /\ UNCHANGED <<op, arg_a, arg_b, arg_n, heap>>

\* ret = (arg_a == arg_b)
EqualCall ==
    /\ pc = "call"
    /\ op = "=="
    /\ pc' = "return"
    /\ ret' = equal(arg_a, arg_b, heap)
    /\ faults' = compare(arg_a, arg_b, 0, {}, heap).f
    /\ UNCHANGED <<op, arg_a, arg_b, arg_x, arg_n, heap>>

\* ret = (arg_a != arg_b)
NotEqualCall ==
    /\ pc = "call"
    /\ op = "!="
    /\ pc' = "return"
    /\ ret' = not_equal(arg_a, arg_b, heap)
    /\ faults' = compare(arg_a, arg_b, 0, {}, heap).f
    /\ UNCHANGED <<op, arg_a, arg_b, arg_x, arg_n, heap>>

\* ret = (arg_a + arg_b) - arg_b
PlusThenMinusCall ==
    /\ pc = "call"
    /\ op = "(+)-"
    /\ pc' = "return"
    /\ ret' = binary("-", binary("+", arg_a, arg_b, heap), arg_b, heap)
    /\ faults' = binary_faults(arg_a, arg_b)
    /\ UNCHANGED <<op, arg_a, arg_b, arg_x, arg_n, heap>>

\* ret = arg_a * arg_n, arg_n an element of T
TimesScalarCall ==
    /\ pc = "call"
    /\ op = "*scalar"
    /\ pc' = "return"
    /\ ret' = times_scalar(arg_a, arg_n, heap)
    /\ UNCHANGED <<op, arg_a, arg_b, arg_x, arg_n, heap, faults>>

NextArith ==
    \/ PlusThenMinusCall
    \/ TimesScalarCall
    \/ EqualCall
    \/ NotEqualCall
    \/ PlusCall
    \/ MinusCall
    \/ TimesCall
    \/ DivideCall
    \/ PlusAssignCall
    \/ MinusAssignCall

SpecArith == InitArith /\ [][NextArith]_vars

(***************************************************************************)
(* One assignment of a string: arg_a is the matrix before the call, arg_x  *)
(* the matrix itself, arg_n the string as pre_parser leaves it, ret what   *)
(* parser returns.                                                         *)
(***************************************************************************)
\* the strings given to one call: up to MaxTok + 1 tokens
ParseStrings == Strings \cup StringsOf(MaxTok + 1)

InitParse ==
    /\ pc = "call"
    /\ op = "operator=(string)"
    /\ arg_a \in {matrix0} \cup MatricesOf(1, 1) \cup MatricesOf(2, 2)
    /\ arg_x = arg_a
    /\ arg_b = matrix0
    /\ arg_n \in ParseStrings
    /\ heap \in Vals
    /\ ret = TRUE
    /\ faults = {}

\* object = arg_n: operator=(std::string) calls parser(str_string)
ParserCall ==
    /\ pc = "call"
    /\ op = "operator=(string)"
    /\ pc' = "return"
    /\ arg_x' = parser(arg_x, arg_n, heap).m
    /\ ret' = parser(arg_x, arg_n, heap).ok
    /\ faults' = parser_faults(arg_n)
    /\ UNCHANGED <<op, arg_a, arg_b, arg_n, heap>>

NextParse == ParserCall

SpecParse == InitParse /\ [][NextParse]_vars

(***************************************************************************)
(* Slices: arg_a is the matrix, arg_n the numbers left, right or mid is    *)
(* given (the second one is used by mid only), ret the matrix returned.    *)
(***************************************************************************)
\* the lengths and positions asked for: up to the most elements of a matrix
SliceArgs == 0..(2 * MaxLen)

InitSlice ==
    /\ pc = "call"
    /\ arg_a \in Matrices
    /\ arg_x = arg_a
    /\ arg_b = matrix0
    /\ heap \in Vals
    /\ ret = matrix0
    /\ faults = {}
    /\ \/ /\ op \in {"left", "right"}
          /\ arg_n \in SliceArgs \X {0}
       \/ /\ op = "mid"
          /\ arg_n \in SliceArgs \X SliceArgs

\* ret = arg_x.left(arg_n[1])
LeftCall ==
    /\ pc = "call"
    /\ op = "left"
    /\ pc' = "return"
    /\ ret' = left(arg_x, arg_n[1], heap).m
    /\ faults' = left(arg_x, arg_n[1], heap).f
    /\ UNCHANGED <<op, arg_a, arg_b, arg_x, arg_n, heap>>

\* ret = arg_x.right(arg_n[1])
RightCall ==
    /\ pc = "call"
    /\ op = "right"
    /\ pc' = "return"
    /\ ret' = right(arg_x, arg_n[1], heap).m
    /\ faults' = right(arg_x, arg_n[1], heap).f
    /\ UNCHANGED <<op, arg_a, arg_b, arg_x, arg_n, heap>>

\* ret = arg_x.mid(arg_n[1], arg_n[2])
MidCall ==
    /\ pc = "call"
    /\ op = "mid"
    /\ pc' = "return"
    /\ ret' = mid(arg_x, arg_n[1], arg_n[2], heap).m
    /\ faults' = mid(arg_x, arg_n[1], arg_n[2], heap).f
    /\ UNCHANGED <<op, arg_a, arg_b, arg_x, arg_n, heap>>

NextSlice ==
    \/ LeftCall
    \/ RightCall
    \/ MidCall

SpecSlice == InitSlice /\ [][NextSlice]_vars

(***************************************************************************)
(* Reference definitions used by the properties                            *)
(***************************************************************************)
RECURSIVE SumFn(_, _)
SumFn(f, S) ==
    IF S = {} THEN 0
    ELSE LET e == CHOOSE e \in S : TRUE IN f[e] + SumFn(f, S \ {e})

\* element (r, c) of m, 0-based, column-major
Elem(m, r, c) == m.data[r + c * m.rows + 1]

\* column c of m as a sequence
Column(m, c) == [i \in 1..m.rows |-> Elem(m, i - 1, c)]

\* the first N samples of the difference equation
\*   y[n] = sum_{k=0}^{|b|-1} b[k] x[n-k] - sum_{k=1}^{|a|-1} a[k] y[n-k]
\* over the 1-based sequences b, a, xs, with out-of-range terms left out
DiffEq(b, a, xs, N) ==
    LET y[n \in 0..(N - 1)] ==
            LET Kb == {k \in 0..(Len(b) - 1) : n - k >= 0 /\ n - k < Len(xs)}
                Ka == {k \in 1..(Len(a) - 1) : n - k >= 0}
            IN  SumFn([k \in Kb |-> b[k + 1] * xs[n - k + 1]], Kb)
                - SumFn([k \in Ka |-> a[k + 1] * y[n - k]], Ka)
    IN  [i \in 1..N |-> y[i - 1]]

\* the full linear convolution of the 1-based sequences p and q
LinConv(p, q) ==
    [t1 \in 1..(Len(p) + Len(q) - 1) |->
        LET K == {k \in 0..(Len(p) - 1) : t1 - 1 - k >= 0 /\ t1 - 1 - k < Len(q)}
        IN  SumFn([k \in K |-> p[k + 1] * q[t1 - k]], K)]

Abs(n) == IF n < 0 THEN 0 - n ELSE n

IsColVector(m) == m.cols = 1 /\ m.rows > 1

IsRowVector(m) == m.rows = 1 /\ m.cols > 1

IsGeneral(m) == m.rows > 1 /\ m.cols > 1

Returned(f) == pc = "return" /\ op = f

(***************************************************************************)
(* Properties                                                              *)
(***************************************************************************)
\* C1: for x a column vector, a row vector or a general matrix, filter(b, a,
\* x, L) has x's orientation and length(x) + L samples (rows(x) + L rows and
\* x's column count for a matrix), and every sample obeys the difference
\* equation with out-of-range terms contributing zero and a[0] never used.
C1_FilterDiffEq ==
    Returned("filter") =>
        /\ IsColVector(arg_x) =>
              /\ ret.rows = size(arg_x) + arg_n /\ ret.cols = 1
              /\ ret.data = DiffEq(arg_b.data, arg_a.data, arg_x.data, size(arg_x) + arg_n)
        /\ IsRowVector(arg_x) =>
              /\ ret.cols = size(arg_x) + arg_n /\ ret.rows = 1
              /\ ret.data = DiffEq(arg_b.data, arg_a.data, arg_x.data, size(arg_x) + arg_n)
        /\ IsGeneral(arg_x) =>
              /\ ret.rows = arg_x.rows + arg_n /\ ret.cols = arg_x.cols
              /\ size(ret) = ret.rows * ret.cols
              /\ \A c \in 0..(arg_x.cols - 1) :
                    Column(ret, c) = DiffEq(arg_b.data, arg_a.data, Column(arg_x, c),
                                            arg_x.rows + arg_n)

\* a general-matrix input with an extra tail, feed-forward and feedback taps,
\* whose feedback drove a sample below zero
C1_Witness ==
    /\ Returned("filter")
    /\ IsGeneral(arg_x)
    /\ arg_n > 0
    /\ size(arg_b) > 1
    /\ size(arg_a) > 1
    /\ \E i \in 1..size(ret) : ret.data[i] < 0

\* C2: filter([1], [1], x) with extra_length 0 returns x unchanged for every
\* non-empty x (1x1 scalar, row vector, column vector, general matrix).
C2_FilterIdentity ==
    ( /\ Returned("filter")
      /\ arg_b.data = <<1>>
      /\ arg_a.data = <<1>>
      /\ arg_n = 0
      /\ size(arg_x) > 0 )
    => ret = arg_x


\* C3: for vectors p (m elements) and q (n elements), in either argument
\* order and any mix of orientations, conv(p, q) has exactly m + n - 1
\* elements and element t is the sum of p[k] * q[t - k] over in-range k.
C3_ConvFullLinear ==
    (Returned("conv") /\ is_vector(arg_a) /\ is_vector(arg_b)) =>
        /\ size(ret) = size(arg_a) + size(arg_b) - 1
        /\ ret.rows * ret.cols = size(ret)
        /\ ret.data = LinConv(arg_a.data, arg_b.data)
        /\ ret.data = LinConv(arg_b.data, arg_a.data)

\* a column vector convolved with a longer row vector, two products adding up
C3_Witness ==
    /\ Returned("conv")
    /\ IsColVector(arg_a)
    /\ IsRowVector(arg_b)
    /\ size(arg_a) < size(arg_b)
    /\ \E i \in 1..size(ret) : ret.data[i] >= 2

\* C4: if either operand of conv is a 1x1 scalar, conv returns the other
\* operand multiplied element-wise by the scalar, in the other operand's
\* shape, whatever the other operand is.
C4_ConvScalar ==
    (Returned("conv") /\ (is_scalar(arg_a) \/ is_scalar(arg_b))) =>
        LET s == IF is_scalar(arg_b) THEN arg_b ELSE arg_a
            o == IF is_scalar(arg_b) THEN arg_a ELSE arg_b
        IN  /\ ret.rows = o.rows
            /\ ret.cols = o.cols
            /\ ret.data = [i \in 1..size(o) |-> s.data[1] * o.data[i]]

\* C5: for a vector h of m >= 2 elements and n >= 1, convmtx(h, n) is
\* (m+n-1) x n for a column h and n x (m+n-1) for a row h, its band holds the
\* successive shifts of h with zeros elsewhere, and its product with every
\* length-n vector x equals conv(h, x) element by element.
C5_ConvmtxProduct ==
    Returned("convmtx") =>
        LET m == size(arg_a)
            n == arg_n
        IN  /\ IsColVector(arg_a) =>
                /\ ret.rows = m + n - 1 /\ ret.cols = n
                /\ \A i \in 0..(m + n - 2), j \in 0..(n - 1) :
                      Elem(ret, i, j) = IF i - j >= 0 /\ i - j < m
                                        THEN arg_a.data[i - j + 1] ELSE 0
                /\ matmul(ret, arg_x).data = conv(arg_a, arg_x, heap).data
            /\ IsRowVector(arg_a) =>
                /\ ret.rows = n /\ ret.cols = m + n - 1
                /\ \A i \in 0..(n - 1), j \in 0..(m + n - 2) :
                      Elem(ret, i, j) = IF j - i >= 0 /\ j - i < m
                                        THEN arg_a.data[j - i + 1] ELSE 0
                /\ matmul(arg_x, ret).data = conv(arg_a, arg_x, heap).data

\* C6: toeplitz(col) for a vector of n elements is n x n with
\* M(i, j) = col[|j - i|], hence symmetric with col[0] on the diagonal, and
\* reads no index of col outside 0..n-1 (also where j - i wraps for j < i).
C6_ToeplitzSymmetric ==
    Returned("toeplitz1") =>
        LET n == size(arg_a)
        IN  /\ ret.rows = n /\ ret.cols = n /\ size(ret) = n * n
            /\ \A i \in 0..(n - 1), j \in 0..(n - 1) :
                  /\ Elem(ret, i, j) = arg_a.data[Abs(j - i) + 1]
                  /\ Elem(ret, i, j) = Elem(ret, j, i)
                  /\ Elem(ret, i, i) = arg_a.data[1]
            /\ faults = {}

\* a longest col whose last two elements differ, seen below the diagonal
\* (size_col < uint_row), over a heap that does not hold col's values
C6_Witness ==
    /\ Returned("toeplitz1")
    /\ size(arg_a) = MaxLen
    /\ arg_a.data[MaxLen] # arg_a.data[MaxLen - 1]
    /\ heap # arg_a.data[MaxLen]
    /\ Elem(ret, MaxLen - 1, 0) = arg_a.data[MaxLen]

\* C7: for every pair of vectors col and row (equal or different lengths),
\* every entry (i, j) of toeplitz(col, row) equals col[|j - i|], nothing
\* outside the result is written and no index outside col is read.
C7_Toeplitz2Safe ==
    Returned("toeplitz2") =>
        /\ \A i \in 0..(ret.rows - 1), j \in 0..(ret.cols - 1) :
              /\ Abs(j - i) < size(arg_a)
              /\ Elem(ret, i, j) = arg_a.data[Abs(j - i) + 1]
        /\ faults = {}

\* C8: upsample(x, u) has u * rows(x) rows and cols(x) columns, element
\* (r * u, c) is x(r, c), and every other element is zero.
C8_UpsampleZeroFill ==
    Returned("upsample") =>
        /\ ret.rows = arg_n * arg_x.rows
        /\ ret.cols = arg_x.cols
        /\ \A r \in 0..(ret.rows - 1), c \in 0..(ret.cols - 1) :
              Elem(ret, r, c) = IF r % arg_n = 0 THEN Elem(arg_x, r \div arg_n, c) ELSE 0

\* C9: for every d >= 1, also d > rows(x), downsample(x, d) has exactly
\* floor(rows(x) / d) rows and cols(x) columns and element (r, c) is
\* x(r * d, c).
C9_DownsampleShape ==
    Returned("downsample") =>
        /\ ret.rows = arg_x.rows \div arg_n
        /\ ret.cols = arg_x.cols
        /\ \A r \in 0..((arg_x.rows \div arg_n) - 1), c \in 0..(arg_x.cols - 1) :
              /\ r < ret.rows
              /\ Elem(ret, r, c) = Elem(arg_x, r * arg_n, c)

\* C10: for every non-empty x and u >= 1, downsample(upsample(x, u), u) has
\* x's shape and equals x element by element.
C10_UpDownRoundTrip ==
    Returned("updown") =>
        /\ ret.rows = arg_x.rows
        /\ ret.cols = arg_x.cols
        /\ ret.data = arg_x.data

\* a general matrix with differing elements, a rate above one, and junk in
\* the heap that differs from some element
C10_Witness ==
    /\ Returned("updown")
    /\ IsGeneral(arg_x)
    /\ arg_n > 1
    /\ \E i, j \in 1..size(arg_x) : arg_x.data[i] # arg_x.data[j]
    /\ heap # 0

\* the object's life is being followed and name is the operation last applied
Live(name) == pc = "live" /\ op = name

\* the buffer of m has rows x cols elements, and m either has at least one
\* row and one column or is the empty matrix
WellShaped(m) ==
    /\ size(m) = m.rows * m.cols
    /\ \/ m.rows >= 1 /\ m.cols >= 1
       \/ m.rows = 0 /\ m.cols = 0 /\ m.data = << >>

\* C11: after any sequence of sized, tuple and string construction, resize,
\* string assignment and copy construction and assignment, the object and
\* the matrix it was copied from have rows * cols elements and are either at
\* least 1 x 1 or empty (0 x 0 with no element).
C11_ShapeInvariant ==
    pc = "live" => WellShaped(arg_a) /\ WellShaped(arg_b)

\* a string of several rows was parsed into the object
C11_Witness ==
    /\ Live("operator=(string)")
    /\ ret = TRUE
    /\ arg_a.rows > 1
    /\ size(arg_a) = arg_a.rows * arg_a.cols

\* the dimension a constructor or resize makes of its argument
Normalised(n) == IF n < 2 THEN 1 ELSE n

C12_MoveLeavesEmpty ==
    Returned("matrix(matrix&&)") =>
        /\ shape(ret) = shape(arg_a)
        /\ ret.data = arg_a.data
        /\ arg_x.rows = 0
        /\ arg_x.cols = 0
        /\ size(arg_x) = 0

\* C14: after object(r, c) = v with r < rows and c < cols, object(r, c) is v,
\* the element at linear index r + c * rows is v, every other element is
\* what it was and so is the shape.
C14_WriteReadBack ==
    (Returned("operator()(row,col)=") /\ arg_n[1] < arg_a.rows /\ arg_n[2] < arg_a.cols)
    => /\ get2(arg_x, arg_n[1], arg_n[2], heap) = arg_n[3]
       /\ get1(arg_x, arg_n[1] + arg_n[2] * arg_a.rows, heap) = arg_n[3]
       /\ shape(arg_x) = shape(arg_a)
       /\ size(arg_x) = size(arg_a)
       /\ \A e \in 0..(size(arg_a) - 1) :
              e # arg_n[1] + arg_n[2] * arg_a.rows
              => get1(arg_x, e, heap) = get1(arg_a, e, heap)

\* an element inside a matrix of several rows and columns was changed
C14_Witness ==
    /\ Returned("operator()(row,col)=")
    /\ IsGeneral(arg_a)
    /\ arg_n[1] > 0 /\ arg_n[1] < arg_a.rows
    /\ arg_n[2] > 0 /\ arg_n[2] < arg_a.cols
    /\ arg_x # arg_a

\* C15: for A and B of different shapes, A + B, A - B, A * B and A / B each
\* return a matrix of A's shape whose every element is zero.
C15_MismatchZeroFilled ==
    (pc = "return" /\ op \in {"+", "-", "*", "/"} /\ shape(arg_a) # shape(arg_b))
    => /\ shape(ret) = shape(arg_a)
       /\ \A e \in 1..size(ret) : ret.data[e] = 0

C17_SetRejectsOutOfRange ==
    /\ Returned("set_row") =>
          /\ "write_out_of_range" \notin faults
          /\ (arg_n >= arg_a.rows \/ size(arg_b) < arg_a.cols)
                => (ret = FALSE /\ arg_x = arg_a)
    /\ Returned("set_col") =>
          /\ "write_out_of_range" \notin faults
          /\ (arg_n >= arg_a.cols \/ size(arg_b) < arg_a.rows)
                => (ret = FALSE /\ arg_x = arg_a)

\* C18: set_row(i, src) with i < rows and a src of at least cols elements
\* returns true, makes element (i, c) the c-th element of src for every
\* c < cols and leaves the other rows and the shape as they were; set_col
\* does the same for column j and the first rows elements of src.
C18_SetWritesOneLine ==
    /\ (Returned("set_row") /\ arg_n < arg_a.rows /\ size(arg_b) >= arg_a.cols)
       => /\ ret = TRUE
          /\ shape(arg_x) = shape(arg_a)
          /\ size(arg_x) = size(arg_a)
          /\ \A r \in 0..(arg_a.rows - 1), c \in 0..(arg_a.cols - 1) :
                Elem(arg_x, r, c) = IF r = arg_n THEN arg_b.data[c + 1]
                                    ELSE Elem(arg_a, r, c)
    /\ (Returned("set_col") /\ arg_n < arg_a.cols /\ size(arg_b) >= arg_a.rows)
       => /\ ret = TRUE
          /\ shape(arg_x) = shape(arg_a)
          /\ size(arg_x) = size(arg_a)
          /\ \A r \in 0..(arg_a.rows - 1), c \in 0..(arg_a.cols - 1) :
                Elem(arg_x, r, c) = IF c = arg_n THEN arg_b.data[r + 1]
                                    ELSE Elem(arg_a, r, c)

\* a row inside a matrix of several rows and columns was set from a source
\* of more elements than the row has, changing the matrix
C18_Witness ==
    /\ Returned("set_row")
    /\ IsGeneral(arg_a)
    /\ arg_n > 0 /\ arg_n < arg_a.rows
    /\ size(arg_b) > arg_a.cols
    /\ ret = TRUE
    /\ arg_x # arg_a

Min(a, b) == IF a < b THEN a ELSE b

\* C20: A == B and A != B, for every A and B in either order, read no
\* element at a linear index >= min(count(A), count(B)) from either buffer
\* and do not compare the shapes: A == B is true, and A != B false, exactly
\* when the first min(count(A), count(B)) elements agree.
C20_CompareUpToShorter ==
    (pc = "return" /\ op \in {"==", "!="})
    => /\ "read_out_of_range" \notin faults
       /\ (ret = (op = "=="))
          <=> \A e \in 1..Min(size(arg_a), size(arg_b)) : arg_a.data[e] = arg_b.data[e]

\* the number of tokens of the r-th (from 0) row of a string of tokens
\* separated by single spaces, rows separated by ';'
TokensOfRow(str, r) == count_chars(getline(str, ";", r), " ") + 1

\* every row of the string has as many tokens as its first row
EqualRows(str) ==
    \A r \in 0..count_chars(str, ";") : TokensOfRow(str, r) = TokensOfRow(str, 0)

\* C21: parsing a string of tokens whose rows do not all have the same
\* number of tokens returns false and builds no matrix (the object stays as
\* it was); parsing a string whose rows all have the same number of tokens
\* returns true and gives rows = number of ';' + 1, cols = tokens per row.
C21_UnequalRowsFail ==
    (Returned("operator=(string)") /\ Len(arg_n) > 0)
    => /\ ~EqualRows(arg_n) => (ret = FALSE /\ arg_x = arg_a)
       /\ EqualRows(arg_n)
          => /\ ret = TRUE
             /\ arg_x.rows = count_chars(arg_n, ";") + 1
             /\ arg_x.cols = TokensOfRow(arg_n, 0)

SameOrientation(v, n) ==
    /\ size(ret) = n
    /\ IF v.rows = 1 THEN shape(ret) = <<1, n>> ELSE shape(ret) = <<n, 1>>

\* C23: for a row or column vector v of N elements, left(n) with
\* 1 <= n <= N is the first n elements, right(n) with 1 <= n <= N the last
\* n elements, mid(a, b) with a < b < N the elements a..b; each is a vector
\* in v's orientation and order, v is as it was, and the elements of left(n)
\* followed by those of right(N - n) are the elements of v.
C23_VectorSlices ==
    (pc = "return" /\ op \in {"left", "right", "mid"} /\ is_vector(arg_a))
    => LET N == size(arg_a)
           n == arg_n[1]
       IN  /\ arg_x = arg_a
           /\ (op = "left" /\ 1 <= n /\ n <= N)
              => /\ SameOrientation(arg_a, n)
                 /\ ret.data = SubSeq(arg_a.data, 1, n)
                 /\ n < N => ret.data \o right(arg_a, N - n, heap).m.data = arg_a.data
           /\ (op = "right" /\ 1 <= n /\ n <= N)
              => /\ SameOrientation(arg_a, n)
                 /\ ret.data = SubSeq(arg_a.data, N - n + 1, N)
           /\ (op = "mid" /\ n < arg_n[2] /\ arg_n[2] < N)
              => /\ SameOrientation(arg_a, arg_n[2] - n + 1)
                 /\ ret.data = SubSeq(arg_a.data, n + 1, arg_n[2] + 1)

\* the middle of a vector whose elements differ was taken, from after its
\* first element, with the heap holding a non-zero word
C23_Witness ==
    /\ Returned("mid")
    /\ is_vector(arg_a)
    /\ arg_n[1] > 0
    /\ arg_n[1] < arg_n[2]
    /\ arg_n[2] < size(arg_a)
    /\ \E e \in 1..size(arg_a) : arg_a.data[e] # arg_a.data[1]
    /\ heap # 0
    /\ size(ret) = arg_n[2] - arg_n[1] + 1

\* C24: left(n), right(n) and mid(a, b) on a matrix with rows > 1 and
\* cols > 1 fail an assertion and return no slice (the empty matrix) for
\* every n up to the element count and every a < b below it.
C24_NonVectorSliceFails ==
    (pc = "return" /\ IsGeneral(arg_a)
       /\ \/ op \in {"left", "right"} /\ arg_n[1] <= size(arg_a)
          \/ op = "mid" /\ arg_n[1] < arg_n[2] /\ arg_n[2] < size(arg_a))
    => /\ "assert" \in faults
       /\ ret = matrix0

\* C25: for A and B of the same shape over an unsigned type of TBits bits,
\* (A + B) - B has A's shape and A's elements, and A * 1 (the scalar 1) is
\* A; the operands are as they were.
C25_ArithmeticIdentities ==
    /\ (Returned("(+)-") /\ shape(arg_a) = shape(arg_b))
       => /\ shape(ret) = shape(arg_a)
          /\ ret.data = arg_a.data
          /\ arg_x = arg_a
    /\ (Returned("*scalar") /\ arg_n = 1)
       => /\ ret = arg_a
          /\ arg_x = arg_a

\* (A + B) - B was computed for a matrix of several rows and columns where
\* an element of A + B wrapped around, with the heap holding a non-zero word
C25_Witness ==
    /\ Returned("(+)-")
    /\ shape(arg_a) = shape(arg_b)
    /\ IsGeneral(arg_a)
    /\ \E e \in 1..size(arg_a) : arg_a.data[e] + arg_b.data[e] >= T_mod
    /\ heap # 0
    /\ ret.data = arg_a.data

====
